---- MODULE Spec2Model ----
(***************************************************************************)
(* fog-of-war: the point sanitizer (src/src/hashable_point.rs) and the     *)
(* buffering pipeline (src/src/buffer.rs).                                 *)
(*                                                                         *)
(* Coordinates are whole metres.  Areas are whole thousandths of a square  *)
(* metre, so that PI * r * r is the integer PiMilli * r * r.               *)
(***************************************************************************)
EXTENDS Integers, Sequences, FiniteSets, TLC

\* ------------------------------------------------------------------ bounds
MaxLen == 3            \* longest point sequence handed to sanitize

\* raw points handed to sanitize: ties at +-5 and 15, both signs, two pairs
\* that share a grid cell, one point already on the grid
RawPoints == { <<-5, 0>>, <<-4, 4>>, <<4, -4>>, <<5, 14>>, <<10, 10>>,
               <<10, -15>> }

SeqsUpTo(S, n) == UNION { [1..k -> S] : k \in 0..n }

Range(s) == { s[i] : i \in DOMAIN s }

Abs(v) == IF v < 0 THEN -v ELSE v

\* ------------------------------------------------- hashable_point.rs
Grid == 10

\* f64::round: to the nearest integer, halves away from zero (v is n / d)
RoundHalfAway(n, d) ==
    IF n >= 0 THEN (2 * n + d) \div (2 * d)
              ELSE -((2 * (-n) + d) \div (2 * d))

\* changed: the quotient is rounded but never multiplied back by the grid
Round10NoScale(v) == RoundHalfAway(v, Grid)

Round10(v) == RoundHalfAway(v, Grid) * Grid

round_to_10_meters(point) == << Round10(point[1]), Round10(point[2]) >>

\* `as i64` of a rounded coordinate: the value is whole and, for projected
\* metres, far inside the i64 range, so the cast keeps it
AsI64(v) == v

\* changed: the raw point is stored as the representative
FromPointKeepRaw(point) ==
    LET rounded_point == round_to_10_meters(point)
    IN  [ x_rounded |-> AsI64(rounded_point[1]),
          y_rounded |-> AsI64(rounded_point[2]),
          original  |-> point ]

FromPoint(point) ==
    LET rounded_point == round_to_10_meters(point)
    IN  [ x_rounded |-> AsI64(rounded_point[1]),
          y_rounded |-> AsI64(rounded_point[2]),
          original  |-> rounded_point ]

\* changed: two points are equal when their x keys are
HashableEqXOnly(a, b) == a.x_rounded = b.x_rounded

\* PartialEq for HashablePoint: the key alone
HashableEq(a, b) == a.x_rounded = b.x_rounded /\ a.y_rounded = b.y_rounded

\* HashSet::insert: an element equal to a stored one is not stored
HashSetInsert(set, h) ==
    IF \E e \in set : HashableEq(e, h) THEN set ELSE set \cup {h}

\* changed: the empty input is not returned early
EarlyReturnNever(original_count) == FALSE

\* `if original_count == 0 { return ... }`
EarlyReturn(original_count) == original_count = 0

\* SanitizeStats { 0, 0, 0.0 }; a percentage is a fraction << n, d >>
ZeroStats == [ final_count |-> 0, removed_count |-> 0,
               removal_percentage |-> << 0, 1 >> ]

\* usize subtraction panics on underflow
USizeUnderflow(a, b) == a < b

\* (a as f64 / b as f64) * 100.0, kept as the fraction << 100 a, b >>: a zero
\* denominator is the f64 that is no number (0/0) or infinite
PercentOf(a, b) == << 100 * a, b >>

\* ------------------------------------------------------------ buffer.rs
\* bounds of the buffering pipeline
MaxPoints == 3         \* longest point sequence handed to the bufferer
MaxChunk  == 3         \* largest chunk_size
MaxHoles  == 2         \* most interior rings of one polygon
MaxParts  == 2         \* most members of one composite handed to explode

\* positions of input points: the first three are the corners of a triangle
\* with sides of 90 (more exactly 90, 90.05, 90.05), the last is far away.
\* With radius 50 the three disks overlap pairwise and leave a gap between
\* them; with radius 45 the first two are exactly 2r apart and the third is
\* more than 2r from both
BufPoints == { <<0, 0>>, <<90, 0>>, <<45, 78>>, <<1000, 0>> }
Radii == { 45, 50 }
Tolerances == { 1 }

\* std::f64::consts::PI in thousandths
PiMilli == 3142

\* PI * radius_m * radius_m
MinHoleArea(radius) == PiMilli * radius * radius

\* the areas of the gaps that three overlapping disks may leave between them
GapAreas == { 1000 }

\* an Option<f64>: << >> is None, << t >> is Some(t)
None == << >>
Some(t) == << t >>

\* ---- geometries: a Polygon has an exterior ring (named by the set of input
\* points whose disks it covers) and interior rings; a composite has parts
Polygon(ext, holes, simp) ==
    [ type |-> "Polygon", ext |-> ext, holes |-> holes, simp |-> simp,
      parts |-> << >> ]
MultiPolygon(parts) ==
    [ type |-> "MultiPolygon", ext |-> {}, holes |-> << >>, simp |-> None,
      parts |-> parts ]
GeometryCollection(parts) ==
    [ type |-> "GeometryCollection", ext |-> {}, holes |-> << >>,
      simp |-> None, parts |-> parts ]
\* a non-polygonal geometry: "Point", "LineString"
Other(type) ==
    [ type |-> type, ext |-> {}, holes |-> << >>, simp |-> None,
      parts |-> << >> ]
\* a slot of a Vec that is not filled yet
NoGeom == Other("None")

\* an interior ring: its position in the polygon it was built in, its area
Ring(id, area) == [ id |-> id, area |-> area ]
Rings(areas) == [ i \in DOMAIN areas |-> Ring(i, areas[i]) ]

RECURSIVE SetToSeq(_)
SetToSeq(S) ==
    IF S = {} THEN << >>
    ELSE LET x == CHOOSE x \in S : TRUE IN << x >> \o SetToSeq(S \ {x})

RECURSIVE Concat(_)
Concat(ss) == IF ss = << >> THEN << >> ELSE Head(ss) \o Concat(Tail(ss))

\* ---- the GEOS operations, by their contract
Dist2(p, q) == (p[1] - q[1]) * (p[1] - q[1]) + (p[2] - q[2]) * (p[2] - q[2])

\* two disks of the radius share area; disks that only touch in one point
\* are merged or not as GEOS decides (touch)
Overlap(p, q, radius, touch) ==
    \/ Dist2(p, q) < 4 * radius * radius
    \/ touch /\ Dist2(p, q) = 4 * radius * radius

RECURSIVE Grow(_, _, _, _)
Grow(C, S, radius, touch) ==
    LET N == C \cup { q \in S : \E p \in C : Overlap(p, q, radius, touch) }
    IN  IF N = C THEN C ELSE Grow(N, S, radius, touch)

\* the connected groups of disks
Components(S, radius, touch) == { Grow({p}, S, radius, touch) : p \in S }

\* the distinct disks a geometry covers
RECURSIVE Disks(_)
Disks(g) ==
    IF g.type = "Polygon" THEN g.ext
    ELSE UNION { Disks(g.parts[i]) : i \in DOMAIN g.parts }

\* the union of the disks around S: one polygon per connected group; fewer
\* than three disks enclose no gap, three or more enclose the gaps `gaps`;
\* the member GEOS lists first is the one that covers `lead`
UnionOfDisks(S, radius, geos) ==
    LET comps == Components(S, radius, geos.touch)
        poly(c) == Polygon(c, IF Cardinality(c) >= 3 THEN Rings(geos.gaps)
                                                      ELSE << >>, None)
        first == { c \in comps : geos.lead \in c }
    IN  IF comps = {} THEN GeometryCollection(<< >>)
        ELSE IF Cardinality(comps) = 1 THEN poly(CHOOSE c \in comps : TRUE)
        ELSE MultiPolygon([ i \in 1..Cardinality(comps) |->
                 poly((SetToSeq(first) \o SetToSeq(comps \ first))[i]) ])

\* Geometry::try_from(&MultiPoint) and buffer_with_params: the disks around
\* the points of one chunk, merged where they overlap
BufferGeom(chunk, radius, geos) == UnionOfDisks(Range(chunk), radius, geos)

\* Geometry::create_geometry_collection
create_geometry_collection(parts) == GeometryCollection(parts)

\* unary_union
unary_union(g, radius, geos) == UnionOfDisks(Disks(g), radius, geos)

\* topology_preserve_simplify: the same rings, each simplified at tol
RECURSIVE topology_preserve_simplify(_, _)
topology_preserve_simplify(g, tol) ==
    IF g.type = "Polygon" THEN [ g EXCEPT !.simp = Some(tol) ]
    ELSE [ g EXCEPT !.parts = [ i \in DOMAIN g.parts |->
                         topology_preserve_simplify(g.parts[i], tol) ] ]

\* ---- build_buffered_geometries, stage by stage
Min(a, b) == IF a < b THEN a ELSE b

\* changed: a chunk or stage that fails is passed over and the run goes on
OnExpectErrSkip(outcome) == "skip"

\* `.expect(..)` on the conversion, the buffer, the collection, the union and
\* the simplification: a failure stops the run
OnExpectErr(outcome) == "panic"

\* changed: one chunk too many is cut when the length is a multiple of size
ChunksTrailingEmpty(pts, size) ==
    [ k \in 1..(Len(pts) \div size + 1) |->
        SubSeq(pts, (k - 1) * size + 1, Min(k * size, Len(pts))) ]

\* changed: chunks_exact, which leaves the remainder out
ChunksExact(pts, size) ==
    [ k \in 1..(Len(pts) \div size) |->
        SubSeq(pts, (k - 1) * size + 1, k * size) ]

\* points.chunks(chunk_size)
Chunks(pts, size) ==
    [ k \in 1..((Len(pts) + size - 1) \div size) |->
        SubSeq(pts, (k - 1) * size + 1, Min(k * size, Len(pts))) ]

\* changed: the collection is exploded without being unioned
DissolveNoUnion(parts, radius, geos) == create_geometry_collection(parts)

\* create_geometry_collection(buffered_parts).unary_union()
Dissolve(parts, radius, geos) ==
    unary_union(create_geometry_collection(parts), radius, geos)

\* changed: a missing tolerance is taken as tolerance 0
SimplifyAlways(g, simplify_tol) ==
    topology_preserve_simplify(g, IF simplify_tol = None THEN 0
                                                         ELSE simplify_tol[1])

\* if let Some(tol) = simplify_tol { dissolved = simplify(tol) }
SimplifyOpt(g, simplify_tol) ==
    IF simplify_tol = None THEN g
    ELSE topology_preserve_simplify(g, simplify_tol[1])

\* the loop of explode_polygons starts at this index (indices from 0)
ExplodeFrom == 1

RECURSIVE explode_polygons(_)
explode_polygons(g) ==
    IF g.type = "Polygon" THEN << g >>
    ELSE IF g.type \in { "MultiPolygon", "GeometryCollection" }
    THEN LET n == Len(g.parts)
             piece(i) ==
                 LET sub == g.parts[i + 1]
                 IN  IF sub.type = "Polygon" THEN << sub >>
                     ELSE IF sub.type \in { "MultiPolygon", "GeometryCollection" }
                     THEN explode_polygons(sub)
                     ELSE << >>
         IN  Concat([ k \in 1..(IF n > ExplodeFrom THEN n - ExplodeFrom ELSE 0)
                          |-> piece(ExplodeFrom + k - 1) ])
    ELSE << >>

\* ---- remove_small_holes; the GEOS calls made for one interior ring end in
\* one of these outcomes
RingOutcomes == { "ok", "ring_err", "poly_err", "area_err" }

\* hole_poly.area().unwrap_or(0.0)
HoleArea(ring, outcome) == IF outcome = "area_err" THEN 0 ELSE ring.area

\* changed: a ring whose GEOS call fails stops the run
OnRingErrPanic(outcome) ==
    IF outcome \in { "ring_err", "poly_err" } THEN "panic" ELSE "decide"

\* `if let Ok(..)`: a ring that cannot be fetched or built is passed over
OnRingErr(outcome) ==
    IF outcome \in { "ring_err", "poly_err" } THEN "skip" ELSE "decide"

\* changed: a hole of exactly the threshold area is dropped
KeepHoleStrict(hole_area, min_area) == hole_area > min_area

\* changed: the comparison is inverted
KeepHoleSmall(hole_area, min_area) == hole_area < min_area

\* `if hole_area >= min_area`
KeepHole(hole_area, min_area) == hole_area >= min_area

\* the loop over the interior rings: large_holes
RECURSIVE LargeHoles(_, _, _, _)
LargeHoles(holes, outcomes, min_area, i) ==
    IF i > Len(holes) THEN << >>
    ELSE (IF /\ OnRingErr(outcomes[i]) = "decide"
             /\ KeepHole(HoleArea(holes[i], outcomes[i]), min_area)
          THEN << holes[i] >> ELSE << >>)
         \o LargeHoles(holes, outcomes, min_area, i + 1)

\* changed: the polygon is handed back as it came
RemoveSmallHolesKeepAll(polygon, min_area, outcomes, rebuild_ok) == polygon

\* create_polygon(exterior, large_holes).unwrap_or(polygon)
remove_small_holes(polygon, min_area, outcomes, rebuild_ok) ==
    IF polygon.type = "Polygon"
    THEN IF rebuild_ok
         THEN [ polygon EXCEPT !.holes =
                    LargeHoles(polygon.holes, outcomes, min_area, 1) ]
         ELSE polygon
    ELSE polygon

AllOk(polygon) == [ i \in DOMAIN polygon.holes |-> "ok" ]

VARIABLES
    raw_points,        \* sanitize: the argument `points`
    san_pc,            \* sanitize: "start", "collect", "drain", "done"
    mapped,            \* indices of raw_points already mapped and inserted
    unique_points,     \* the HashSet<HashablePoint>
    sanitized_points,  \* the returned Vec<Point>
    stats,             \* the returned SanitizeStats
    divided,           \* whether the percentage division was evaluated
    pass,              \* 1: sanitize(P); 2: sanitize of that output
    first_output       \* the points returned by pass 1

san_vars == << raw_points, san_pc, mapped, unique_points, sanitized_points,
               stats, divided, pass, first_output >>

VARIABLES
    points,            \* build_buffered_geometries: the argument `points`
    radius_m,          \* the argument radius_m
    chunk_size,        \* the argument chunk_size
    simplify_tol,      \* the argument simplify_tol
    geos,              \* what GEOS decides for this input (see UnionOfDisks)
    pc,                \* the stage the pipeline is at
    chunks,            \* points.chunks(chunk_size)
    buffered_parts,    \* one geometry per chunk, NoGeom until buffered
    dissolved,         \* the geometry handed on to explode_polygons
    polygons,          \* explode_polygons(dissolved)
    min_hole_area,     \* PI * radius_m * radius_m
    result,            \* the returned Vec<Geometry>, NoGeom until filtered
    ring_outcomes,     \* per polygon, how the GEOS calls for each ring ended
    rebuilt,           \* per polygon, whether the final create_polygon worked
    failure,           \* the `expect` that failed, "none" while none has
    stages,            \* the stages run so far, in the order they ran
    unioned            \* the geometry unary_union returned

buf_vars == << points, radius_m, chunk_size, simplify_tol, geos, pc, chunks,
               buffered_parts, dissolved, polygons, min_hole_area, result,
               ring_outcomes, rebuilt, failure, stages, unioned >>

vars == << san_vars, buf_vars >>

\* the sanitizer is not running
SanitizeIdle ==
    /\ raw_points = << >>
    /\ san_pc = "idle"
    /\ mapped = {}
    /\ unique_points = {}
    /\ sanitized_points = << >>
    /\ stats = ZeroStats
    /\ divided = FALSE
    /\ pass = 1
    /\ first_output = << >>

NoGeos == [ touch |-> FALSE, lead |-> << 0, 0 >>, gaps |-> << >> ]

\* the pipeline is not running
BufferIdle ==
    /\ points = << >>
    /\ radius_m = 50
    /\ chunk_size = 1
    /\ simplify_tol = None
    /\ geos = NoGeos
    /\ pc = "idle"
    /\ chunks = << >>
    /\ buffered_parts = << >>
    /\ dissolved = NoGeom
    /\ polygons = << >>
    /\ min_hole_area = 0
    /\ result = << >>
    /\ ring_outcomes = << >>
    /\ rebuilt = << >>
    /\ failure = "none"
    /\ stages = << >>
    /\ unioned = NoGeom

InitSanitize ==
    /\ BufferIdle
    /\ raw_points \in SeqsUpTo(RawPoints, MaxLen)
    /\ san_pc = "start"
    /\ mapped = {}
    /\ unique_points = {}
    /\ sanitized_points = << >>
    /\ stats = ZeroStats
    /\ divided = FALSE
    /\ pass = 1
    /\ first_output = << >>

\* original_count == 0: the input is returned with all-zero stats
SanitizeEmpty ==
    /\ san_pc = "start"
    /\ EarlyReturn(Len(raw_points))
    /\ sanitized_points' = raw_points
    /\ stats' = ZeroStats
    /\ san_pc' = "done"
    /\ UNCHANGED << raw_points, mapped, unique_points, divided, pass,
                    first_output >>
    /\ UNCHANGED buf_vars

\* points.into_par_iter().map(HashablePoint::from).collect(): the workers
\* deliver the mapped points to the set in any order
SanitizeCollect ==
    /\ san_pc = "start"
    /\ ~EarlyReturn(Len(raw_points))
    /\ \E i \in (1..Len(raw_points)) \ mapped :
          /\ unique_points' = HashSetInsert(unique_points, FromPoint(raw_points[i]))
          /\ mapped' = mapped \cup {i}
    /\ UNCHANGED << raw_points, san_pc, sanitized_points, stats, divided,
                    pass, first_output >>
    /\ UNCHANGED buf_vars

\* unique_points.into_iter().map(Point::from): the set is drained in an
\* unspecified order
SanitizeDrain ==
    /\ san_pc = "start"
    /\ ~EarlyReturn(Len(raw_points))
    /\ mapped = 1..Len(raw_points)
    /\ \E h \in unique_points :
          /\ unique_points' = unique_points \ {h}
          /\ sanitized_points' = Append(sanitized_points, h.original)
    /\ UNCHANGED << raw_points, san_pc, mapped, stats, divided, pass,
                    first_output >>
    /\ UNCHANGED buf_vars

SanitizeStats ==
    /\ san_pc = "start"
    /\ ~EarlyReturn(Len(raw_points))
    /\ mapped = 1..Len(raw_points)
    /\ unique_points = {}
    /\ LET original_count == Len(raw_points)
           final_count    == Len(sanitized_points)
           removed_count  == original_count - final_count
       IN  IF USizeUnderflow(original_count, final_count)
           THEN /\ san_pc' = "panic"
                /\ UNCHANGED << stats, divided >>
           ELSE /\ stats' = [ final_count |-> final_count,
                              removed_count |-> removed_count,
                              removal_percentage |->
                                  PercentOf(removed_count, original_count) ]
                /\ divided' = TRUE
                /\ san_pc' = "done"
    /\ UNCHANGED << raw_points, mapped, unique_points, sanitized_points,
                    pass, first_output >>
    /\ UNCHANGED buf_vars

\* the returned points are handed to sanitize once more
SanitizeAgain ==
    /\ san_pc = "done"
    /\ pass = 1
    /\ pass' = 2
    /\ first_output' = sanitized_points
    /\ raw_points' = sanitized_points
    /\ san_pc' = "start"
    /\ mapped' = {}
    /\ unique_points' = {}
    /\ sanitized_points' = << >>
    /\ stats' = ZeroStats
    /\ divided' = FALSE
    /\ UNCHANGED buf_vars

NextSanitize ==
    \/ SanitizeEmpty
    \/ SanitizeCollect
    \/ SanitizeDrain
    \/ SanitizeStats
    \/ SanitizeAgain

SpecSanitize == InitSanitize /\ [][NextSanitize]_vars

\* ------------------------------------------- build_buffered_geometries
\* what GEOS may make of the disks around S: whether two disks exactly 2r
\* apart are merged, which polygon of the union comes first, and the gaps
\* that three or more merged disks enclose
GeosChoices(S, radius) ==
    UNION { LET comps == Components(S, radius, touch)
            IN  [ touch : { touch },
                  lead  : IF comps = {} THEN { << 0, 0 >> }
                          ELSE { CHOOSE p \in c : TRUE : c \in comps },
                  gaps  : IF \E c \in comps : Cardinality(c) >= 3
                          THEN SeqsUpTo(GapAreas, MaxHoles) ELSE { << >> } ]
          : touch \in IF \E p, q \in S : Dist2(p, q) = 4 * radius * radius
                      THEN BOOLEAN ELSE { FALSE } }

\* the inputs the pipeline is called with, and what GEOS makes of them
InitBuffer ==
    /\ SanitizeIdle
    /\ points \in SeqsUpTo(BufPoints, MaxPoints)
    /\ radius_m \in Radii
    /\ chunk_size \in 1..MaxChunk
    /\ simplify_tol \in { None } \cup { Some(t) : t \in Tolerances }
    /\ geos \in GeosChoices(Range(points), radius_m)
    /\ pc = "start"
    /\ chunks = << >>
    /\ buffered_parts = << >>
    /\ dissolved = NoGeom
    /\ polygons = << >>
    /\ min_hole_area = 0
    /\ result = << >>
    /\ ring_outcomes = << >>
    /\ rebuilt = << >>
    /\ failure = "none"
    /\ stages = << >>
    /\ unioned = NoGeom

\* let chunks: Vec<_> = points.chunks(chunk_size).collect()
ChunkPoints ==
    /\ pc = "start"
    /\ chunks' = Chunks(points, chunk_size)
    /\ buffered_parts' = [ k \in DOMAIN chunks' |-> NoGeom ]
    /\ pc' = "buffer"
    /\ UNCHANGED << points, radius_m, chunk_size, simplify_tol, geos,
                    dissolved, polygons, min_hole_area, result,
                    ring_outcomes, rebuilt, failure, stages, unioned >>
    /\ UNCHANGED san_vars

\* one task of the parallel map: convert a chunk and buffer it; either
\* `expect` stops the run
BufferChunk ==
    /\ pc = "buffer"
    /\ \E k \in DOMAIN chunks, outcome \in { "ok", "conv_err", "buffer_err" } :
          /\ buffered_parts[k] = NoGeom
          /\ IF outcome = "ok"
             THEN /\ buffered_parts' = [ buffered_parts EXCEPT ![k] =
                                           BufferGeom(chunks[k], radius_m, geos) ]
                  /\ stages' = Append(stages, "buffer")
                  /\ UNCHANGED << pc, failure >>
             ELSE /\ failure' = outcome
                  /\ IF OnExpectErr(outcome) = "panic"
                     THEN /\ pc' = "panicked"
                          /\ UNCHANGED buffered_parts
                     ELSE /\ buffered_parts' = [ buffered_parts EXCEPT ![k] =
                                                   GeometryCollection(<< >>) ]
                          /\ pc' = pc
                  /\ UNCHANGED stages
    /\ UNCHANGED << points, radius_m, chunk_size, simplify_tol, geos, chunks,
                    dissolved, polygons, min_hole_area, result,
                    ring_outcomes, rebuilt, unioned >>
    /\ UNCHANGED san_vars

\* the collected parts are put in one collection and unioned
DissolveChunks ==
    /\ pc = "buffer"
    /\ \A k \in DOMAIN chunks : buffered_parts[k] # NoGeom
    /\ \E outcome \in { "ok", "coll_err", "union_err" } :
          IF outcome = "ok"
          THEN /\ dissolved' = Dissolve(buffered_parts, radius_m, geos)
               /\ unioned' = dissolved'
               /\ stages' = Append(stages, "dissolve")
               /\ pc' = "simplify"
               /\ UNCHANGED failure
          ELSE /\ failure' = outcome
               /\ IF OnExpectErr(outcome) = "panic"
                  THEN /\ pc' = "panicked"
                       /\ UNCHANGED dissolved
                  ELSE /\ dissolved' = create_geometry_collection(buffered_parts)
                       /\ pc' = "simplify"
               /\ UNCHANGED << stages, unioned >>
    /\ UNCHANGED << points, radius_m, chunk_size, simplify_tol, geos, chunks,
                    buffered_parts, polygons, min_hole_area, result,
                    ring_outcomes, rebuilt >>
    /\ UNCHANGED san_vars

\* the optional simplification
Simplify ==
    /\ pc = "simplify"
    /\ \E outcome \in IF simplify_tol = None THEN { "ok" }
                                            ELSE { "ok", "simplify_err" } :
          IF outcome = "ok"
          THEN /\ dissolved' = SimplifyOpt(dissolved, simplify_tol)
               /\ stages' = IF simplify_tol = None THEN stages
                                                   ELSE Append(stages, "simplify")
               /\ pc' = "explode"
               /\ UNCHANGED failure
          ELSE /\ failure' = outcome
               /\ pc' = IF OnExpectErr(outcome) = "panic" THEN "panicked"
                                                          ELSE "explode"
               /\ UNCHANGED << dissolved, stages >>
    /\ UNCHANGED << points, radius_m, chunk_size, simplify_tol, geos, chunks,
                    buffered_parts, polygons, min_hole_area, result,
                    ring_outcomes, rebuilt, unioned >>
    /\ UNCHANGED san_vars

\* let polygons = explode_polygons(dissolved); let min_hole_area = ...
Explode ==
    /\ pc = "explode"
    /\ polygons' = explode_polygons(dissolved)
    /\ min_hole_area' = MinHoleArea(radius_m)
    /\ result' = [ k \in DOMAIN polygons' |-> NoGeom ]
    /\ ring_outcomes' = [ k \in DOMAIN polygons' |-> << >> ]
    /\ rebuilt' = [ k \in DOMAIN polygons' |-> FALSE ]
    /\ stages' = Append(stages, "explode")
    /\ pc' = "filter"
    /\ UNCHANGED << points, radius_m, chunk_size, simplify_tol, geos, chunks,
                    buffered_parts, dissolved, failure, unioned >>
    /\ UNCHANGED san_vars

\* one task of the parallel map over the polygons: remove_small_holes
RemoveSmallHoles ==
    /\ pc = "filter"
    /\ \E k \in DOMAIN polygons :
          /\ result[k] = NoGeom
          /\ IF polygons[k].type # "Polygon"
             THEN /\ result' = [ result EXCEPT ![k] =
                        remove_small_holes(polygons[k], min_hole_area, << >>, TRUE) ]
                  /\ stages' = Append(stages, "filter")
                  /\ UNCHANGED << ring_outcomes, rebuilt, pc, failure >>
             ELSE \E head \in { "ok", "exterior_err", "count_err" } :
                     IF head # "ok"
                     THEN /\ pc' = "panicked"
                          /\ failure' = head
                          /\ UNCHANGED << result, ring_outcomes, rebuilt, stages >>
                     ELSE \E outcomes \in [ DOMAIN polygons[k].holes -> RingOutcomes ],
                             rebuild_ok \in BOOLEAN :
                             /\ ring_outcomes' = [ ring_outcomes EXCEPT ![k] = outcomes ]
                             /\ IF \A i \in DOMAIN outcomes :
                                       OnRingErr(outcomes[i]) # "panic"
                                THEN /\ result' = [ result EXCEPT ![k] =
                                           remove_small_holes(polygons[k],
                                               min_hole_area, outcomes, rebuild_ok) ]
                                     /\ rebuilt' = [ rebuilt EXCEPT ![k] = rebuild_ok ]
                                     /\ stages' = Append(stages, "filter")
                                     /\ UNCHANGED << pc, failure >>
                                ELSE /\ pc' = "panicked"
                                     /\ failure' = "ring_err"
                                     /\ UNCHANGED << result, rebuilt, stages >>
    /\ UNCHANGED << points, radius_m, chunk_size, simplify_tol, geos, chunks,
                    buffered_parts, dissolved, polygons, min_hole_area,
                    unioned >>
    /\ UNCHANGED san_vars

\* .collect(): every polygon has been filtered
Return ==
    /\ pc = "filter"
    /\ \A k \in DOMAIN polygons : result[k] # NoGeom
    /\ pc' = "done"
    /\ UNCHANGED << points, radius_m, chunk_size, simplify_tol, geos, chunks,
                    buffered_parts, dissolved, polygons, min_hole_area,
                    result, ring_outcomes, rebuilt, failure, stages, unioned >>
    /\ UNCHANGED san_vars

Next ==
    \/ ChunkPoints
    \/ BufferChunk
    \/ DissolveChunks
    \/ Simplify
    \/ Explode
    \/ RemoveSmallHoles
    \/ Return

Spec == InitBuffer /\ [][Next]_vars

\* ------------------------- remove_small_holes on polygons of any shape
HoleAreas(radius) ==
    { MinHoleArea(radius) - 1, MinHoleArea(radius), MinHoleArea(radius) + 1 }

HoleInputs(radius) ==
    { Polygon({ << 0, 0 >> }, Rings(areas), None) :
          areas \in SeqsUpTo(HoleAreas(radius), MaxHoles) }
    \cup { MultiPolygon(<< >>), Other("LineString") }

InitHoles ==
    /\ SanitizeIdle
    /\ points = << >>
    /\ radius_m \in Radii
    /\ chunk_size = 1
    /\ simplify_tol = None
    /\ geos = NoGeos
    /\ pc = "filter"
    /\ chunks = << >>
    /\ buffered_parts = << >>
    /\ dissolved = NoGeom
    /\ polygons \in { << p >> : p \in HoleInputs(radius_m) }
    /\ min_hole_area = MinHoleArea(radius_m)
    /\ result = << NoGeom >>
    /\ ring_outcomes = << << >> >>
    /\ rebuilt = << FALSE >>
    /\ failure = "none"
    /\ stages = << >>
    /\ unioned = NoGeom

NextHoles ==
    \/ RemoveSmallHoles
    \/ Return

SpecHoles == InitHoles /\ [][NextHoles]_vars

\* --------------------------- explode_polygons on geometries of any shape
P1 == Polygon({ << 0, 0 >> }, << >>, None)
P2 == Polygon({ << 1000, 0 >> }, << >>, None)

GeomLeaves == { P1, P2, Other("Point"), Other("LineString") }

GeomNested ==
    GeomLeaves
    \cup { MultiPolygon(s) : s \in SeqsUpTo({ P1, P2 }, MaxParts) }
    \cup { GeometryCollection(s) : s \in SeqsUpTo(GeomLeaves, 1) }

GeomTrees ==
    GeomNested \cup { GeometryCollection(s) : s \in SeqsUpTo(GeomNested, MaxParts) }

InitExplode ==
    /\ SanitizeIdle
    /\ points = << >>
    /\ radius_m = 50
    /\ chunk_size = 1
    /\ simplify_tol = None
    /\ geos = NoGeos
    /\ pc = "explode"
    /\ chunks = << >>
    /\ buffered_parts = << >>
    /\ dissolved \in GeomTrees
    /\ polygons = << >>
    /\ min_hole_area = 0
    /\ result = << >>
    /\ ring_outcomes = << >>
    /\ rebuilt = << >>
    /\ failure = "none"
    /\ stages = << >>
    /\ unioned = NoGeom

NextExplode == Explode

SpecExplode == InitExplode /\ [][NextExplode]_vars

\* ================================================================ claims

\* ---- explode_polygons
\* the polygon leaves of a geometry, members taken in order
RECURSIVE Leaves(_)
Leaves(g) ==
    IF g.type = "Polygon" THEN << g >>
    ELSE IF g.type \in { "MultiPolygon", "GeometryCollection" }
    THEN Concat([ i \in DOMAIN g.parts |-> Leaves(g.parts[i]) ])
    ELSE << >>

\* C1: explode_polygons(g) returns exactly the Polygon leaves of g, the
\* members of every composite taken in member order from the first one on,
\* non-polygonal members contributing nothing.
C1_ExplodeReturnsEveryLeaf ==
    pc = "filter" => polygons = Leaves(dissolved)

\* ---- build_buffered_geometries
PairwiseFar(pts, radius) ==
    \A i, j \in DOMAIN pts :
        i # j => Dist2(pts[i], pts[j]) > 4 * radius * radius

\* no GEOS call made by the hole filter failed
FilterAllOk ==
    \A k \in DOMAIN result :
        /\ rebuilt[k]
        /\ \A i \in DOMAIN ring_outcomes[k] : ring_outcomes[k][i] = "ok"

\* C2: k >= 2 input points pairwise more than 2 * radius_m apart give, for
\* every chunk_size, exactly k polygons, one per point, pairwise disjoint and
\* each without holes.
C2_FarPointsOnePolygonEach ==
    (pc = "done" /\ Len(points) >= 2 /\ PairwiseFar(points, radius_m)) =>
        /\ Len(result) = Len(points)
        /\ \A i \in DOMAIN points :
              \E k \in DOMAIN result : result[k].ext = { points[i] }
        /\ \A k \in DOMAIN result :
              result[k].type = "Polygon" /\ result[k].holes = << >>
        /\ \A k, l \in DOMAIN result :
              k # l => result[k].ext \cap result[l].ext = {}

\* C3: two input points less than 2 * radius_m apart give exactly one merged
\* polygon without holes, whether they share a chunk or not.
C3_ClosePairOnePolygon ==
    (/\ pc = "done"
     /\ Len(points) = 2
     /\ Dist2(points[1], points[2]) < 4 * radius_m * radius_m) =>
        /\ Len(result) = 1
        /\ result[1].type = "Polygon"
        /\ result[1].ext = { points[1], points[2] }
        /\ result[1].holes = << >>

C3_Witness ==
    /\ pc = "done"
    /\ Len(points) = 2
    /\ points[1] # points[2]
    /\ Dist2(points[1], points[2]) < 4 * radius_m * radius_m
    /\ chunk_size = 1
    /\ Len(chunks) = 2
    /\ Len(result) = 1

\* what the pipeline makes of the points when they are cut into chunks of c
ExplodedFor(c) ==
    LET cs == Chunks(points, c)
        parts == [ k \in DOMAIN cs |-> BufferGeom(cs[k], radius_m, geos) ]
    IN  explode_polygons(SimplifyOpt(Dissolve(parts, radius_m, geos), simplify_tol))

ReturnedFor(c) ==
    LET ps == ExplodedFor(c)
    IN  [ k \in DOMAIN ps |-> remove_small_holes(ps[k], MinHoleArea(radius_m),
                                                 AllOk(ps[k]), TRUE) ]

Filtered(k) == result[k] # NoGeom /\ polygons[k].type = "Polygon"

RingsOk(k) == \A i \in DOMAIN ring_outcomes[k] : ring_outcomes[k][i] = "ok"

IsLarge(ring) == ring.area >= MinHoleArea(radius_m)

OneHole(k) ==
    Filtered(k) /\ RingsOk(k) /\ rebuilt[k] /\ Len(polygons[k].holes) = 1

\* C6 as stated: with no call failing, a single hole of area exactly
\* pi * r^2 is removed, one of pi * r^2 + epsilon is retained, one of
\* pi * r^2 - epsilon is removed.
C6_HoleAtThresholdRemoved ==
    \A k \in DOMAIN result :
        OneHole(k) =>
            LET area == polygons[k].holes[1].area
            IN  /\ area = MinHoleArea(radius_m) => result[k].holes = << >>
                /\ area = MinHoleArea(radius_m) + 1 =>
                       result[k].holes = polygons[k].holes
                /\ area = MinHoleArea(radius_m) - 1 => result[k].holes = << >>

\* C6 amended: with no call failing, a single hole of area exactly pi * r^2
\* is retained, as is one of pi * r^2 + epsilon; one of pi * r^2 - epsilon
\* is removed.
C6_HoleAtThresholdRetained ==
    \A k \in DOMAIN result :
        OneHole(k) =>
            LET area == polygons[k].holes[1].area
            IN  /\ area = MinHoleArea(radius_m) =>
                       result[k].holes = polygons[k].holes
                /\ area = MinHoleArea(radius_m) + 1 =>
                       result[k].holes = polygons[k].holes
                /\ area = MinHoleArea(radius_m) - 1 => result[k].holes = << >>

C6_Witness ==
    \E k \in DOMAIN result :
        /\ OneHole(k)
        /\ polygons[k].holes[1].area = MinHoleArea(radius_m)
        /\ Len(result[k].holes) = 1

\* a GEOS call made for ring i of polygon k failed
RingFailed(k, i) ==
    i \in DOMAIN ring_outcomes[k] /\ ring_outcomes[k][i] # "ok"

\* the rings of polygon k whose calls all worked and that are large enough
DecidedLarge(k) ==
    LET keep(i) == ~RingFailed(k, i) /\ IsLarge(polygons[k].holes[i])
        RECURSIVE from(_)
        from(i) == IF i > Len(polygons[k].holes) THEN << >>
                   ELSE (IF keep(i) THEN << polygons[k].holes[i] >> ELSE << >>)
                        \o from(i + 1)
    IN  from(1)

\* C7 as stated: when a step of the area computation fails for a ring, the
\* polygon is still returned, the ring is not among the rings of the output
\* polygon, and the other rings are decided by their area.
C7_FailedRingDropped ==
    \A k \in DOMAIN result :
        (\E i \in DOMAIN ring_outcomes[k] : RingFailed(k, i)) =>
            /\ Filtered(k)
            /\ result[k].holes = DecidedLarge(k)

\* C7 amended: that holds when the final rebuild of the polygon succeeds;
\* when it fails the polygon is returned as it came, failed rings included.
C7_FailedRingDroppedIfRebuilt ==
    \A k \in DOMAIN result :
        (\E i \in DOMAIN ring_outcomes[k] : RingFailed(k, i)) =>
            /\ Filtered(k)
            /\ rebuilt[k] => result[k].holes = DecidedLarge(k)
            /\ ~rebuilt[k] => result[k] = polygons[k]

C7_Witness ==
    \E k \in DOMAIN result :
        /\ Filtered(k)
        /\ rebuilt[k]
        /\ Len(polygons[k].holes) = 2
        /\ IsLarge(polygons[k].holes[1]) /\ IsLarge(polygons[k].holes[2])
        /\ RingFailed(k, 1) /\ ~RingFailed(k, 2)
        /\ result[k].holes = << polygons[k].holes[2] >>

\* ---- sanitize
\* the key of a point: each coordinate divided by the grid, rounded to the
\* nearest whole number (halves away from zero), multiplied back
RoundedKey(p) ==
    LET r(v) == IF v >= 0 THEN ((2 * v + Grid) \div (2 * Grid)) * Grid
                          ELSE -(((2 * (-v) + Grid) \div (2 * Grid)) * Grid)
    IN  << r(p[1]), r(p[2]) >>

KeysOf(pts) == { RoundedKey(pts[i]) : i \in DOMAIN pts }

\* C8: the output of sanitize has exactly one point per distinct key of the
\* input, each point is the rounded coordinate pair (multiples of the grid),
\* and two output points differ by at least the grid in x or in y.
C8_OnePointPerKey ==
    (san_pc = "done" /\ pass = 1) =>
        /\ Range(sanitized_points) = KeysOf(raw_points)
        /\ Len(sanitized_points) = Cardinality(KeysOf(raw_points))
        /\ \A j \in DOMAIN sanitized_points :
              /\ sanitized_points[j][1] % Grid = 0
              /\ sanitized_points[j][2] % Grid = 0
        /\ \A j, l \in DOMAIN sanitized_points :
              j # l => \/ Abs(sanitized_points[j][1] - sanitized_points[l][1]) >= Grid
                       \/ Abs(sanitized_points[j][2] - sanitized_points[l][2]) >= Grid

C8_Witness ==
    /\ san_pc = "done" /\ pass = 1
    /\ Len(raw_points) = 3
    /\ Len(sanitized_points) = 2
    /\ Cardinality(Range(raw_points)) = 3
    /\ \E i \in DOMAIN raw_points : raw_points[i] \notin Range(sanitized_points)

\* C9: sanitize applied to the output of sanitize returns the same set of
\* points and reports removed_count = 0.
C9_SanitizeIdempotent ==
    (san_pc = "done" /\ pass = 2) =>
        /\ Range(sanitized_points) = Range(first_output)
        /\ stats.removed_count = 0

C9_Witness ==
    /\ san_pc = "done" /\ pass = 2
    /\ Len(first_output) >= 2
    /\ \E j \in DOMAIN first_output : first_output[j][1] < 0
    /\ Len(sanitized_points) = Len(first_output)

\* C10: final_count is the length of the returned list, removed_count is
\* |P| - final_count and not negative, removal_percentage is
\* removed_count / |P| * 100; the empty input returns no points and
\* stats { 0, 0, 0.0 } without dividing.
C10_StatsMatchOutput ==
    san_pc = "done" =>
        /\ stats.final_count = Len(sanitized_points)
        /\ stats.removed_count = Len(raw_points) - stats.final_count
        /\ stats.removed_count >= 0
        /\ stats.removal_percentage[2] # 0
        /\ stats.removal_percentage[1] * Len(raw_points) =
               100 * stats.removed_count * stats.removal_percentage[2]
        /\ Len(raw_points) = 0 =>
               /\ sanitized_points = << >>
               /\ stats = ZeroStats
               /\ ~divided

C10_Witness ==
    /\ san_pc = "done" /\ pass = 1
    /\ Len(raw_points) = 3
    /\ stats.removed_count = 1
    /\ stats.removal_percentage = << 100, 3 >>
    /\ divided

\* ---- failures of the buffering, the union and the simplification
StageFailures ==
    { "conv_err", "buffer_err", "coll_err", "union_err", "simplify_err" }

\* C11: once the conversion or the buffering of a chunk, the collection, the
\* union or the simplification has failed, the run is aborted: it is never at
\* a later stage, no polygon list is built and none is returned.
C11_StageFailureAborts ==
    failure \in StageFailures =>
        /\ pc = "panicked"
        /\ polygons = << >>
        /\ result = << >>

C11_Witness ==
    /\ pc = "panicked"
    /\ failure \in { "conv_err", "buffer_err" }
    /\ Len(chunks) >= 2
    /\ \E k \in DOMAIN chunks : buffered_parts[k] # NoGeom
    /\ \E k \in DOMAIN chunks : buffered_parts[k] = NoGeom

\* ---- the returned polygons
SmallRing(ring) == ring.area < MinHoleArea(radius_m)

\* C12 as stated: when build_buffered_geometries returns, no returned polygon
\* has an interior ring of an area below pi * radius_m^2, on every path
\* through remove_small_holes.
C12_NoSmallHoleReturned ==
    pc = "done" =>
        \A k \in DOMAIN result :
            \A i \in DOMAIN result[k].holes : ~SmallRing(result[k].holes[i])

\* C12 amended: that holds of every returned polygon whose final rebuild
\* succeeded; a polygon whose rebuild failed is returned as explode_polygons
\* gave it, small rings included.
C12_NoSmallHoleWhenRebuilt ==
    pc = "done" =>
        \A k \in DOMAIN result :
            /\ rebuilt[k] =>
                  \A i \in DOMAIN result[k].holes : ~SmallRing(result[k].holes[i])
            /\ ~rebuilt[k] => result[k] = polygons[k]

C12_Witness ==
    /\ pc = "done"
    /\ \E k \in DOMAIN result :
          /\ rebuilt[k]
          /\ Len(polygons[k].holes) >= 1
          /\ SmallRing(polygons[k].holes[1])
          /\ result[k].holes = << >>

\* ---- the chunks
CeilDiv(n, c) == IF n % c = 0 THEN n \div c ELSE n \div c + 1

Count(seq, x) == Cardinality({ i \in DOMAIN seq : seq[i] = x })

\* C13: n points are cut into ceil(n / chunk_size) consecutive non-empty
\* chunks that concatenate to the input, each of at most chunk_size points
\* and only the last of fewer; one geometry is produced per chunk; no points
\* give no chunks, no chunk task that could fail, and an empty returned list.
C13_ChunksPartitionThePoints ==
    pc \notin { "start", "idle" } =>
        /\ Len(chunks) = CeilDiv(Len(points), chunk_size)
        /\ Concat(chunks) = points
        /\ \A k \in DOMAIN chunks :
              /\ Len(chunks[k]) >= 1
              /\ Len(chunks[k]) <= chunk_size
              /\ k < Len(chunks) => Len(chunks[k]) = chunk_size
        /\ Len(buffered_parts) = Len(chunks)
        /\ pc \in { "simplify", "explode", "filter", "done" } =>
              /\ Count(stages, "buffer") = Len(chunks)
              /\ \A k \in DOMAIN chunks :
                    /\ buffered_parts[k] # NoGeom
                    /\ Disks(buffered_parts[k]) = Range(chunks[k])
        /\ Len(points) = 0 =>
              /\ chunks = << >>
              /\ failure \notin { "conv_err", "buffer_err" }
              /\ pc = "done" => result = << >>

C13_Witness ==
    /\ pc = "done"
    /\ Len(points) = 3
    /\ chunk_size = 2
    /\ Len(chunks) = 2
    /\ chunks[1] = << points[1], points[2] >>
    /\ chunks[2] = << points[3] >>
    /\ buffered_parts[2] # NoGeom

\* no points: the run reaches its return with an empty list
C13_EmptyReturns ==
    /\ pc = "done"
    /\ points = << >>
    /\ chunks = << >>
    /\ result = << >>
    /\ failure = "none"

\* ---- the order of the stages
StageRank(stage) ==
    CASE stage = "buffer"   -> 1
      [] stage = "dissolve" -> 2
      [] stage = "simplify" -> 3
      [] stage = "explode"  -> 4
      [] stage = "filter"   -> 5

\* C14: the stages run in the order buffer (every chunk), one dissolve,
\* simplification, explode, hole filtering; the simplification runs at most
\* once, between the dissolve and the explode, and only with a tolerance;
\* without a tolerance explode_polygons is handed the dissolved geometry as
\* the union returned it.
C14_StagesInOrder ==
    /\ \A i, j \in DOMAIN stages :
          i < j => StageRank(stages[i]) <= StageRank(stages[j])
    /\ Count(stages, "dissolve") <= 1
    /\ Count(stages, "simplify") <= 1
    /\ Count(stages, "explode") <= 1
    /\ Count(stages, "simplify") = 1 => simplify_tol # None
    /\ Count(stages, "dissolve") = 1 => Count(stages, "buffer") = Len(chunks)
    /\ Count(stages, "explode") = 1 =>
          /\ Count(stages, "dissolve") = 1
          /\ Count(stages, "simplify") = (IF simplify_tol = None THEN 0 ELSE 1)
          /\ simplify_tol = None => dissolved = unioned
          /\ simplify_tol # None =>
                dissolved = topology_preserve_simplify(unioned, simplify_tol[1])
          /\ polygons = explode_polygons(dissolved)
    /\ pc = "done" =>
          /\ Count(stages, "explode") = 1
          /\ Count(stages, "filter") = Len(polygons)

C14_Witness ==
    /\ pc = "done"
    /\ simplify_tol # None
    /\ stages = << "buffer", "buffer", "dissolve", "simplify", "explode",
                   "filter" >>
    /\ dissolved # unioned

\* without a tolerance: the union's geometry reaches explode_polygons as it is
C14_NoToleranceReturns ==
    /\ pc = "done"
    /\ simplify_tol = None
    /\ stages = << "buffer", "buffer", "dissolve", "explode", "filter" >>
    /\ dissolved = unioned

\* ---- the insertion order and the result of sanitize
RECURSIVE InsertAll(_, _)
\* the set left by inserting the mapped points of seq in sequence order
InsertAll(seq, set) ==
    IF seq = << >> THEN set
    ELSE InsertAll(Tail(seq), HashSetInsert(set, FromPoint(Head(seq))))

SanitizedSet(seq) == { h.original : h \in InsertAll(seq, {}) }

SameKeys(seq) ==
    { q \in SeqsUpTo(RawPoints, MaxLen) : KeysOf(q) = KeysOf(seq) }

\* C15: the set of points sanitize returns depends only on the set of keys
\* of its input: whatever the order in which the workers' points reach the
\* set, the result is the one that any input with the same keys yields when
\* inserted in sequence order, since every stored point is the rounded point
\* of its key and so equal keys store equal points.
C15_ResultDependsOnKeysOnly ==
    /\ \A h \in unique_points : h.original = << h.x_rounded, h.y_rounded >>
    /\ (san_pc = "start" /\ sanitized_points = << >>) =>
          unique_points = { FromPoint(raw_points[i]) : i \in mapped }
    /\ (san_pc = "done" /\ pass = 1) =>
          \A q \in SameKeys(raw_points) :
              Range(sanitized_points) = SanitizedSet(q)

\* two raw points of one cell and a third of another cell with the same x
\* key, the point given last delivered to the set first
C15_Witness ==
    /\ san_pc = "done" /\ pass = 1
    /\ Len(raw_points) = 3
    /\ raw_points[1] # raw_points[2]
    /\ RoundedKey(raw_points[1]) = RoundedKey(raw_points[2])
    /\ RoundedKey(raw_points[3]) # RoundedKey(raw_points[1])
    /\ RoundedKey(raw_points[3])[1] = RoundedKey(raw_points[1])[1]
    /\ Len(sanitized_points) = 2
    /\ sanitized_points[1] = RoundedKey(raw_points[3])
    /\ Cardinality(SameKeys(raw_points)) > 1

====
